---- MODULE Spec2Model ----
(***************************************************************************)
(* State-machine model of the in-memory key/value and list server of       *)
(* src/app/handler/handler.go.                                             *)
(*                                                                         *)
(* Every accepted connection runs HandleConnection in its own goroutine.   *)
(* The goroutines share three maps (store, rPlush, blockings) and one      *)
(* mutex (mu).  A handler is cut into steps at its accesses to that shared *)
(* state: a step holds the handler's local computation and at most one     *)
(* access that is not ordered with the other goroutines' accesses, so      *)
(* every interleaving of the unguarded reads and writes is a behaviour.    *)
(* A map read or write is one step; a slice is modelled by its contents.   *)
(***************************************************************************)
EXTENDS Integers, Sequences, FiniteSets, TLC

\* ---------------------------------------------------------------- bounds

NConn == 3       \* connections accepted by main (one goroutine each)
MaxCmds == 2     \* frames decoded over all connections together (Spec)
MaxListCmds == 4 \* frames decoded over all connections together (ListSpec)
MaxWakeCmds == 3 \* frames decoded over all connections together (WakeSpec)
MaxTimeoutCmds == 3 \* frames decoded over all connections together (TimeoutSpec)
MaxPush == 2     \* values carried by one LPUSH / RPUSH frame
MaxTime == 2     \* clock ticks (milliseconds) that may elapse
MaxStoreCmds == 4 \* frames decoded over all connections together (StoreSpec)
MaxRangeCmds == 2 \* frames decoded over all connections together (RangeSpec)
MaxPopCmds == 3  \* frames decoded over all connections together (PopSpec)

Conns == 1..NConn

\* ---------------------------------------------------------------- inputs

Keys == {"jobs"}
Vals == {"a", "b"}

\* ------------------------------------------------------- protocol codec

\* strings.TrimSpace on the lines the inputs hold
TrimSpace(s) == IF s \in {" ", "\r\n"} THEN "" ELSE s

\* the count line of a frame of n elements
CountLine(n) == "*" \o ToString(n)

\* strings.HasPrefix(line, "*") on the first lines the inputs hold
HasPrefixStar(line) == line \in {CountLine(n) : n \in 0..5} \cup {"*", "*x"}

\* parseLength: fmt.Sscanf(s, "*%d", &n); n stays 0 when the scan fails
parseLength(s) ==
    IF \E n \in 0..5 : s = CountLine(n)
    THEN CHOOSE n \in 0..5 : s = CountLine(n)
    ELSE 0

\* strings.ToUpper on the tokens the inputs hold
ToUpper(s) ==
    CASE s = "ping" -> "PING"
      [] s = "px" -> "PX"
      [] s = "rpush" -> "RPUSH"
      [] OTHER -> s

\* strconv.Atoi: [ok, n]
Atoi(s) ==
    CASE s = "0" -> [ok |-> TRUE, n |-> 0]
      [] s = "1" -> [ok |-> TRUE, n |-> 1]
      [] s = "2" -> [ok |-> TRUE, n |-> 2]
      [] s = "5" -> [ok |-> TRUE, n |-> 5]
      [] s = "-1" -> [ok |-> TRUE, n |-> -1]
      [] s = "-2" -> [ok |-> TRUE, n |-> -2]
      [] s = "-5" -> [ok |-> TRUE, n |-> -5]
      [] OTHER -> [ok |-> FALSE, n |-> 0]

\* strconv.ParseFloat(s, 64): [ok, zero]; zero tells whether the value is 0
ParseFloat(s) ==
    CASE s = "0" -> [ok |-> TRUE, zero |-> TRUE]
      [] s \in {"1", "2", "5", "0.2", "-1", "-2", "-5"} -> [ok |-> TRUE, zero |-> FALSE]
      [] OTHER -> [ok |-> FALSE, zero |-> FALSE]

\* the payloads conn.Write is given
ErrorReply(msg) == "-ERR " \o msg \o "\r\n"
SimpleString(msg) == "+" \o msg \o "\r\n"
NullReply == "$-1\r\n"
BulkString(s) ==
    IF s = "" THEN "$-1\r\n"
    ELSE "$" \o ToString(Len(s)) \o "\r\n" \o s \o "\r\n"
IntegerReply(n) == ":" \o ToString(n) \o "\r\n"
ArrayHeader(n) == "*" \o ToString(n) \o "\r\n"

\* ------------------------------------------------------------- go values

\* m[k] of a Go map: the zero value (a nil slice) when k is absent
Lookup(m, k) == IF k \in DOMAIN m THEN m[k] ELSE <<>>

\* m[k] = v of a Go map
Assign(m, k, v) == [x \in DOMAIN m \cup {k} |-> IF x = k THEN v ELSE m[x]]

\* delete(m, k) of a Go map
Delete(m, k) == [x \in DOMAIN m \ {k} |-> m[x]]

\* the elements of a slice
Range(s) == {s[i] : i \in 1..Len(s)}

\* s[n:] of a slice, n <= len(s)
SliceFrom(s, n) == SubSeq(s, n + 1, Len(s))

\* time.Time{}: the zero time, which stands for "no expiry"
ZeroTime == [zero |-> TRUE, ms |-> 0]

\* time.Now().Add(ms milliseconds)
TimeAt(ms) == [zero |-> FALSE, ms |-> ms]

\* types.Entry
Entry(value, expiry) == [Value |-> value, ExpiryTime |-> expiry]

\* types.BlockingRequest; Ch is named by the connection whose call made it
BlockingRequest(key, c, timeout) == [Key |-> key, Ch |-> c, Timeout |-> timeout]

\* ----------------------------------------------------------------- state

VARIABLES
    pc,         \* pc[c]: where connection c's goroutine stands
    args,       \* args[c]: the decoded frame of the command c is executing
    list,       \* list[c]: the handler's local slice "list"
    idx,        \* idx[c]: the push loop's index into args (1-based)
    out,        \* out[c]: the conn.Write payloads of c's latest loop iteration
    last,       \* last[c]: how c's latest read ended: "none" before the first,
                \* "frame", "malformed" (bad first line) or "closed" (read error)
    ncmd,       \* frames decoded so far, over all connections
    store,      \* var store: map[string]types.Entry
    rPlush,     \* var rPlush: map[string][]string
    blockings,  \* var blockings: map[string][]types.BlockingRequest
    mu,         \* var mu: 0 when unlocked, else the connection that locked it
    ch,         \* ch[c]: the buffer (capacity 1) of the channel of c's BLPOP call
    now,        \* the wall clock, in milliseconds
    ahead,      \* history: ahead[c] holds the connections whose requests were
                \* queued before the request of c's current BLPOP call
    began       \* history: began[c] holds the list that c's current push call
                \* found under its key when it first read it

vars == <<pc, args, list, idx, out, last, ncmd, store, rPlush, blockings, mu, ch, now, ahead, began>>

shared == <<store, rPlush, blockings, mu, ch>>

\* the empty Go map
EmptyMap == [x \in {} |-> <<>>]

Init ==
    /\ pc = [c \in Conns |-> "idle"]
    /\ args = [c \in Conns |-> <<>>]
    /\ list = [c \in Conns |-> <<>>]
    /\ idx = [c \in Conns |-> 0]
    /\ out = [c \in Conns |-> <<>>]
    /\ last = [c \in Conns |-> "none"]
    /\ ncmd = 0
    /\ store = EmptyMap
    /\ rPlush = EmptyMap
    /\ blockings = EmptyMap
    /\ mu = 0
    /\ ch = [c \in Conns |-> <<>>]
    /\ now = 0
    /\ ahead = [c \in Conns |-> {}]
    /\ began = [c \in Conns |-> <<>>]

\* ---------------------------------------------------------------- frames

\* the value lists of n values, each a or b in turn
RECURSIVE ValSeq(_)
ValSeq(n) == IF n = 0 THEN <<>> ELSE Append(ValSeq(n - 1), IF n % 2 = 1 THEN "a" ELSE "b")

\* the value lists a push frame carries: one value, or 2..MaxPush values
PushVals == {<<v>> : v \in Vals} \cup {ValSeq(n) : n \in 2..MaxPush}

Frames ==
    {<<"PING">>, <<"ping">>, <<"ECHO">>, <<"ECHO", "a">>, <<"FOO">>}
    \cup {<<"SET", k>> : k \in Keys}
    \cup {<<"SET", k, v>> : k \in Keys, v \in Vals \cup {""}}
    \cup {<<"SET", k, "a", px, ms>> : k \in Keys, px \in {"PX", "px"}, ms \in {"1", "x"}}
    \cup {<<"GET">>}
    \cup {<<"GET", k>> : k \in Keys}
    \cup {<<n, k>> : n \in {"LPUSH", "RPUSH"}, k \in Keys}
    \cup {<<n, k>> \o vs : n \in {"LPUSH", "RPUSH", "rpush"}, k \in Keys, vs \in PushVals}
    \cup {<<"LRANGE", k>> : k \in Keys}
    \cup {<<"LRANGE", k, s, e>> : k \in Keys, s \in {"0", "x"}, e \in {"-1", "x"}}
    \cup {<<"LLEN">>}
    \cup {<<"LLEN", k>> : k \in Keys}
    \cup {<<"LPOP">>}
    \cup {<<"LPOP", k>> : k \in Keys}
    \cup {<<"LPOP", k, n>> : k \in Keys, n \in {"2", "x"}}
    \cup {<<"BLPOP", k>> : k \in Keys}
    \cup {<<"BLPOP", k, t>> : k \in Keys, t \in {"0", "1", "x"}}

\* the lines of the request that carries frame f: the count line, then a
\* length line (never validated) and a payload line per element
RECURSIVE Wire(_)
Wire(f) ==
    IF f = <<>> THEN <<>>
    ELSE Wire(SubSeq(f, 1, Len(f) - 1)) \o <<"$", f[Len(f)]>>

\* what a connection's stream may deliver to one parseArgs call: the lines
\* it holds, and whether the peer closed the stream after them
Request(f) == [lines |-> <<CountLine(Len(f))>> \o Wire(f), closed |-> FALSE]

ClosedStream == [lines |-> <<>>, closed |-> TRUE]

Inputs ==
    {Request(f) : f \in Frames}
    \cup {[lines |-> <<l>>, closed |-> FALSE] : l \in {"\r\n", "PING", "*x", "*0"}}
    \cup {ClosedStream, [lines |-> <<"*2", "$", "GET">>, closed |-> TRUE]}

\* parseArgs: [args, err, wrote]; err = "" stands for a nil error
parseArgs(in) ==
    IF in.lines = <<>>
    THEN [args |-> <<>>, err |-> "EOF", wrote |-> <<>>]
    ELSE LET line == TrimSpace(in.lines[1])
             n == parseLength(line)
         IN  IF line = "" \/ ~HasPrefixStar(line)
             THEN [args |-> <<>>, err |-> "invalid format",
                   wrote |-> <<ErrorReply("invalid format")>>]
             ELSE IF Len(in.lines) < 1 + 2 * n
             THEN [args |-> <<>>, err |-> "EOF", wrote |-> <<>>]
             ELSE [args |-> [i \in 1..n |-> TrimSpace(in.lines[2 * i + 1])],
                   err |-> "", wrote |-> <<>>]

\* ------------------------------------------------------ goroutine locals

\* connection c goes to label with these locals and these payloads written
Goto(c, label, a, l, i, o) ==
    /\ pc' = [pc EXCEPT ![c] = label]
    /\ args' = [args EXCEPT ![c] = a]
    /\ list' = [list EXCEPT ![c] = l]
    /\ idx' = [idx EXCEPT ![c] = i]
    /\ out' = [out EXCEPT ![c] = o]

\* the handler returns to the loop of HandleConnection, having written o
Return(c, o) == Goto(c, "idle", <<>>, <<>>, 0, o)

\* ------------------------------------------- handlers without shared state

handlePing(c) ==
    /\ Return(c, <<SimpleString("PONG")>>)
    /\ UNCHANGED shared

handleEcho(c, a) ==
    /\ IF Len(a) # 2
       THEN Return(c, <<ErrorReply("wrong number of arguments for 'ECHO'")>>)
       ELSE Return(c, <<SimpleString(a[2])>>)
    /\ UNCHANGED shared

\* the default case of the switch in HandleConnection
unknownCommand(c, a) ==
    /\ Return(c, <<ErrorReply("unknown command '" \o a[1] \o "'")>>)
    /\ UNCHANGED shared

\* ------------------------------------------------------- key/value store

\* handleSet with the store written before the PX value is parsed
handleSetEager(c, a) ==
    IF Len(a) < 3
    THEN /\ Return(c, <<ErrorReply("wrong number of arguments for 'SET'")>>)
         /\ UNCHANGED shared
    ELSE /\ store' = Assign(store, a[2], Entry(a[3],
                        IF Len(a) >= 5 /\ ToUpper(a[4]) = "PX" /\ Atoi(a[5]).ok
                        THEN TimeAt(now + Atoi(a[5]).n) ELSE ZeroTime))
         /\ IF Len(a) >= 5 /\ ToUpper(a[4]) = "PX" /\ ~Atoi(a[5]).ok
            THEN Return(c, <<ErrorReply("PX value must be integer")>>)
            ELSE Return(c, <<SimpleString("OK")>>)
         /\ UNCHANGED <<rPlush, blockings, mu, ch>>

\* handleSet: no lock is taken; the map write is the handler's one access
handleSet(c, a) ==
    IF Len(a) < 3
    THEN /\ Return(c, <<ErrorReply("wrong number of arguments for 'SET'")>>)
         /\ UNCHANGED shared
    ELSE IF Len(a) >= 5 /\ ToUpper(a[4]) = "PX" /\ ~Atoi(a[5]).ok
    THEN /\ Return(c, <<ErrorReply("PX value must be integer")>>)
         /\ UNCHANGED shared
    ELSE LET expiry == IF Len(a) >= 5 /\ ToUpper(a[4]) = "PX"
                       THEN TimeAt(now + Atoi(a[5]).n)
                       ELSE ZeroTime
         IN  /\ store' = Assign(store, a[2], Entry(a[3], expiry))
             /\ Return(c, <<SimpleString("OK")>>)
             /\ UNCHANGED <<rPlush, blockings, mu, ch>>

\* the condition of handleGet's if: the key is absent, or its expiry passed
Expired(m, key) ==
    \/ key \notin DOMAIN m
    \/ /\ m[key].ExpiryTime # ZeroTime
       /\ now > m[key].ExpiryTime.ms

\* handleGet up to its read of the map (no lock is taken)
handleGet(c, a) ==
    /\ UNCHANGED shared
    /\ IF Len(a) # 2
       THEN Return(c, <<ErrorReply("wrong number of arguments for 'GET'")>>)
       ELSE IF Expired(store, a[2])
       THEN Goto(c, "get_delete", a, <<>>, 0, <<>>)
       ELSE Return(c, <<BulkString(store[a[2]].Value)>>)

\* handleGet, the absent or expired branch: delete(store, key); writeNull
handleGetDelete(c) ==
    /\ pc[c] = "get_delete"
    /\ store' = Delete(store, args[c][2])
    /\ Return(c, <<NullReply>>)
    /\ UNCHANGED <<rPlush, blockings, mu, ch, last, ncmd, now, ahead, began>>

\* ------------------------------------------------------------ list store

\* handleLPush / handleRPush up to mu.Lock()
handlePush(c, a, name) ==
    /\ UNCHANGED shared
    /\ IF Len(a) < 3
       THEN Return(c, <<ErrorReply("wrong number of arguments for '" \o name \o "'")>>)
       ELSE Goto(c, "push_lock", a, <<>>, 3, <<>>)

\* mu.Lock(), then the read of rPlush[key] of the loop's first append
handlePushLock(c) ==
    /\ pc[c] = "push_lock"
    /\ mu = 0
    /\ mu' = c
    /\ Goto(c, "push_write", args[c], Lookup(rPlush, args[c][2]), idx[c], <<>>)
    /\ began' = [began EXCEPT ![c] = Lookup(rPlush, args[c][2])]
    /\ UNCHANGED <<store, rPlush, blockings, ch, last, ncmd, now, ahead>>

\* the read of rPlush[key] of a later append of the loop
handlePushRead(c) ==
    /\ pc[c] = "push_read"
    /\ Goto(c, "push_write", args[c], Lookup(rPlush, args[c][2]), idx[c], <<>>)
    /\ UNCHANGED <<shared, last, ncmd, now, ahead, began>>

\* the slice one iteration of the push loop stores: LPUSH prepends, RPUSH appends
Pushed(name, l, v) == IF name = "LPUSH" THEN <<v>> \o l ELSE Append(l, v)

\* rPlush[key] = append(...) of one iteration, and the loop's i++
handlePushWrite(c) ==
    /\ pc[c] = "push_write"
    /\ rPlush' = Assign(rPlush, args[c][2],
                        Pushed(ToUpper(args[c][1]), list[c], args[c][idx[c]]))
    /\ Goto(c, IF idx[c] < Len(args[c]) THEN "push_read" ELSE "push_wake",
            args[c], <<>>, idx[c] + 1, <<>>)
    /\ UNCHANGED <<store, blockings, mu, ch, last, ncmd, now, ahead, began>>

\* wakeUpFirstBlocking waking every queued request instead of the head one
wakeUpAllBlocking(key) ==
    IF key \in DOMAIN blockings /\ Len(blockings[key]) > 0
    THEN /\ blockings' = Assign(blockings, key, <<>>)
         /\ ch' = [c \in Conns |->
                     IF \E r \in Range(blockings[key]) : r.Ch = c
                     THEN <<key>> ELSE ch[c]]
    ELSE UNCHANGED <<blockings, ch>>

\* wakeUpFirstBlocking: dequeue the head request and send the key on its
\* channel without blocking (select with default)
wakeUpFirstBlocking(key) ==
    IF key \in DOMAIN blockings /\ Len(blockings[key]) > 0
    THEN LET req == blockings[key][1]
         IN  /\ blockings' = Assign(blockings, key, SliceFrom(blockings[key], 1))
             /\ ch' = IF Len(ch[req.Ch]) < 1
                      THEN [ch EXCEPT ![req.Ch] = Append(@, key)]
                      ELSE ch
    ELSE UNCHANGED <<blockings, ch>>

\* the call of wakeUpFirstBlocking(key) in handleLPush / handleRPush
handlePushWake(c) ==
    /\ pc[c] = "push_wake"
    /\ wakeUpFirstBlocking(args[c][2])
    /\ Goto(c, "push_reply", args[c], <<>>, idx[c], <<>>)
    /\ UNCHANGED <<store, rPlush, mu, last, ncmd, now, ahead, began>>

\* writeInteger(conn, len(rPlush[key])), then the deferred mu.Unlock()
handlePushReply(c) ==
    /\ pc[c] = "push_reply"
    /\ mu' = 0
    /\ Return(c, <<IntegerReply(Len(Lookup(rPlush, args[c][2])))>>)
    /\ began' = [began EXCEPT ![c] = <<>>]
    /\ UNCHANGED <<store, rPlush, blockings, ch, last, ncmd, now, ahead>>

\* RangeBounds with a start before the front of the list giving the empty
\* range instead of being clamped to 0
RangeBoundsStrict(n, start, end) ==
    LET s == IF start < 0 THEN n + start ELSE start
        e == IF end < 0 THEN (IF n + end < 0 THEN 0 ELSE n + end) ELSE end
    IN  IF s < 0 \/ s >= n \/ s > e
        THEN [empty |-> TRUE, start |-> 0, end |-> e]
        ELSE [empty |-> FALSE, start |-> s, end |-> IF e >= n THEN n - 1 ELSE e]

\* the bounds handleLRange computes from start and end on a list of length n:
\* [empty, start, end]
RangeBounds(n, start, end) ==
    LET s == IF start < 0 THEN (IF n + start < 0 THEN 0 ELSE n + start) ELSE start
        e == IF end < 0 THEN (IF n + end < 0 THEN 0 ELSE n + end) ELSE end
    IN  IF s >= n \/ s > e
        THEN [empty |-> TRUE, start |-> s, end |-> e]
        ELSE [empty |-> FALSE, start |-> s, end |-> IF e >= n THEN n - 1 ELSE e]

\* handleLRange: one unguarded read of rPlush[key]
handleLRange(c, a) ==
    /\ UNCHANGED shared
    /\ IF Len(a) # 4
       THEN Return(c, <<ErrorReply("wrong number of arguments for 'LRANGE'")>>)
       ELSE IF ~Atoi(a[3]).ok \/ ~Atoi(a[4]).ok
       THEN Return(c, <<ErrorReply("invalid start or end index")>>)
       ELSE LET l == Lookup(rPlush, a[2])
                b == RangeBounds(Len(l), Atoi(a[3]).n, Atoi(a[4]).n)
            IN  IF b.empty
                THEN Return(c, <<ArrayHeader(0)>>)
                ELSE Return(c, <<ArrayHeader(b.end - b.start + 1)>>
                                \o [i \in 1..(b.end - b.start + 1) |->
                                        BulkString(l[b.start + i])])

\* handleLLen: one unguarded read of rPlush[key]
handleLLen(c, a) ==
    /\ UNCHANGED shared
    /\ IF Len(a) # 2
       THEN Return(c, <<ErrorReply("wrong number of arguments for 'LLEN'")>>)
       ELSE Return(c, <<IntegerReply(Len(Lookup(rPlush, a[2])))>>)

\* handleLPop up to its unguarded read list := rPlush[key]
handleLPop(c, a) ==
    /\ UNCHANGED shared
    /\ IF Len(a) < 2
       THEN Return(c, <<ErrorReply("wrong number of arguments for 'LPOP'")>>)
       ELSE IF Len(Lookup(rPlush, a[2])) = 0
       THEN Return(c, <<NullReply>>)
       ELSE Goto(c, "lpop_write", a, Lookup(rPlush, a[2]), 0, <<>>)

\* the count handleLPop removes when given a third argument
PopCount(l, s) ==
    LET n == IF ~Atoi(s).ok \/ Atoi(s).n <= 0 THEN 1 ELSE Atoi(s).n
    IN  IF n > Len(l) THEN Len(l) ELSE n

\* handleLPop, the write rPlush[key] = list[count:] and the reply
handleLPopWrite(c) ==
    /\ pc[c] = "lpop_write"
    /\ IF Len(args[c]) = 3
       THEN LET count == PopCount(list[c], args[c][3])
            IN  /\ rPlush' = Assign(rPlush, args[c][2], SliceFrom(list[c], count))
                /\ Return(c, <<ArrayHeader(count)>>
                              \o [i \in 1..count |-> BulkString(list[c][i])])
       ELSE /\ rPlush' = Assign(rPlush, args[c][2], SliceFrom(list[c], 1))
            /\ Return(c, <<BulkString(list[c][1])>>)
    /\ UNCHANGED <<store, blockings, mu, ch, last, ncmd, now, ahead, began>>

\* --------------------------------------------------- blocking coordinator

\* the three writes of a successful BLPOP: "*2", the key, the value
PopReply(key, value) == <<ArrayHeader(2), BulkString(key), BulkString(value)>>

\* handleBLPop up to mu.Lock()
handleBLPop(c, a) ==
    /\ UNCHANGED shared
    /\ IF Len(a) # 3
       THEN Return(c, <<ErrorReply("wrong number of arguments for 'BLPOP'")>>)
       ELSE Goto(c, "blpop_lock", a, <<>>, 0, <<>>)

\* mu.Lock() and the read of rPlush[key]; on an empty list the timeout is
\* parsed: a parse error returns with mu still locked, a number enqueues
\* the request on a fresh channel and unlocks
handleBLPopLock(c) ==
    /\ pc[c] = "blpop_lock"
    /\ mu = 0
    /\ LET key == args[c][2]
           timeout == ParseFloat(args[c][3])
       IN  IF key \in DOMAIN rPlush /\ Len(rPlush[key]) > 0
           THEN /\ mu' = c
                /\ Goto(c, "blpop_fast", args[c], rPlush[key], 0, <<>>)
                /\ UNCHANGED <<blockings, ch>>
           ELSE IF ~timeout.ok
           THEN /\ mu' = c
                /\ Return(c, <<ErrorReply("timeout must be a number")>>)
                /\ UNCHANGED <<blockings, ch>>
           ELSE /\ mu' = 0
                /\ ch' = [ch EXCEPT ![c] = <<>>]
                /\ blockings' = Assign(blockings, key,
                       Append(Lookup(blockings, key),
                              BlockingRequest(key, c, args[c][3])))
                /\ Goto(c, IF timeout.zero THEN "blpop_wait" ELSE "blpop_select",
                        args[c], <<>>, 0, <<>>)
    /\ ahead' = IF blockings' = blockings THEN ahead
                 ELSE [ahead EXCEPT ![c] = {r.Ch : r \in Range(Lookup(blockings, args[c][2]))}]
    /\ UNCHANGED <<store, rPlush, last, ncmd, now, began>>

\* the fast path: rPlush[key] = list[1:]; mu.Unlock(); the reply
handleBLPopFast(c) ==
    /\ pc[c] = "blpop_fast"
    /\ rPlush' = Assign(rPlush, args[c][2], SliceFrom(list[c], 1))
    /\ mu' = 0
    /\ Return(c, PopReply(args[c][2], list[c][1]))
    /\ UNCHANGED <<store, blockings, ch, last, ncmd, now, ahead, began>>

\* a woken call that takes the list for empty whatever it holds
handleBLPopSignalEmpty(c) ==
    /\ pc[c] \in {"blpop_wait", "blpop_select"}
    /\ Len(ch[c]) > 0
    /\ ch' = [ch EXCEPT ![c] = Tail(@)]
    /\ Return(c, <<>>)
    /\ UNCHANGED <<store, rPlush, blockings, mu, last, ncmd, now, ahead, began>>

\* the receive from the channel (timeout 0: <-ch; otherwise the select's
\* case key := <-ch) and the unguarded read list := rPlush[key]; an empty
\* list falls off the end of handleBLPop with nothing written
handleBLPopSignal(c) ==
    /\ pc[c] \in {"blpop_wait", "blpop_select"}
    /\ Len(ch[c]) > 0
    /\ ch' = [ch EXCEPT ![c] = Tail(@)]
    /\ LET l == Lookup(rPlush, ch[c][1])
       IN  IF Len(l) > 0
           THEN Goto(c, "blpop_pop", args[c], l, 0, <<>>)
           ELSE Return(c, <<>>)
    /\ UNCHANGED <<store, rPlush, blockings, mu, last, ncmd, now, ahead, began>>

\* the woken call's unguarded write rPlush[key] = list[1:] and its reply
handleBLPopPop(c) ==
    /\ pc[c] = "blpop_pop"
    /\ rPlush' = Assign(rPlush, args[c][2], SliceFrom(list[c], 1))
    /\ Return(c, PopReply(args[c][2], list[c][1]))
    /\ UNCHANGED <<store, blockings, mu, ch, last, ncmd, now, ahead, began>>

\* the select takes case <-time.After(blocking.Timeout): the timer has fired
handleBLPopTimer(c) ==
    /\ pc[c] = "blpop_select"
    /\ Goto(c, "blpop_expire", args[c], <<>>, 0, <<>>)
    /\ UNCHANGED <<shared, last, ncmd, now, ahead, began>>

\* the requests of q whose channel is not c's
RECURSIVE Without(_, _)
Without(q, c) ==
    IF q = <<>> THEN <<>>
    ELSE IF q[1].Ch # c THEN <<q[1]>> \o Without(Tail(q), c)
    ELSE Without(Tail(q), c)

\* the timeout branch: mu.Lock(); drop the own request from blockings[key];
\* mu.Unlock(); writeNull
handleBLPopExpire(c) ==
    /\ pc[c] = "blpop_expire"
    /\ mu = 0
    /\ blockings' = Assign(blockings, args[c][2],
                           Without(Lookup(blockings, args[c][2]), c))
    /\ Return(c, <<NullReply>>)
    /\ UNCHANGED <<store, rPlush, mu, ch, last, ncmd, now, ahead, began>>

\* ------------------------------------------------------- connection loop

\* the switch of HandleConnection on strings.ToUpper(args[0])
Dispatch(c, a) ==
    LET name == ToUpper(a[1])
    IN  CASE name = "PING" -> handlePing(c)
          [] name = "ECHO" -> handleEcho(c, a)
          [] name = "SET" -> handleSet(c, a)
          [] name = "GET" -> handleGet(c, a)
          [] name = "LPUSH" -> handlePush(c, a, "LPUSH")
          [] name = "RPUSH" -> handlePush(c, a, "RPUSH")
          [] name = "LRANGE" -> handleLRange(c, a)
          [] name = "LLEN" -> handleLLen(c, a)
          [] name = "LPOP" -> handleLPop(c, a)
          [] name = "BLPOP" -> handleBLPop(c, a)
          [] OTHER -> unknownCommand(c, a)

\* one iteration of the loop of HandleConnection on input in: parseArgs, the
\* two error branches (both "continue"), and the dispatch of the command up
\* to its first wait or its second access to shared state
Iteration(c, in) ==
    LET r == parseArgs(in)
    IN  /\ ahead' = [d \in Conns |-> IF d = c THEN {} ELSE ahead[d] \ {c}]
        /\ began' = began
        /\ IF r.err # ""
           THEN /\ Return(c, r.wrote \o <<ErrorReply(r.err)>>)
                /\ last' = [last EXCEPT ![c] = IF in.closed THEN "closed" ELSE "malformed"]
                /\ UNCHANGED <<shared, ncmd>>
           ELSE /\ last' = [last EXCEPT ![c] = "frame"]
                /\ ncmd' = ncmd + 1
                /\ IF Len(r.args) = 0
                   THEN /\ Return(c, <<ErrorReply("empty command")>>)
                        /\ UNCHANGED shared
                   ELSE Dispatch(c, r.args)

\* HandleConnection reads the next request of connection c, drawn from ins,
\* while fewer than budget frames were decoded; once the peer has closed the
\* stream every read fails.  The loop has no return statement, so the
\* deferred conn.Close() is never reached: no step leaves the loop.
Serve(c, ins, budget) ==
    /\ pc[c] = "idle"
    /\ now' = now
    /\ IF last[c] = "closed"
       THEN Iteration(c, ClosedStream)
       ELSE /\ ncmd < budget
            /\ \E in \in ins : Iteration(c, in)

HandleConnection(c) == Serve(c, Inputs, MaxCmds)

\* a millisecond passes
Tick ==
    /\ now < MaxTime
    /\ now' = now + 1
    /\ UNCHANGED <<pc, args, list, idx, out, last, ncmd, shared, ahead, began>>

Next ==
    \/ \E c \in Conns :
        \/ HandleConnection(c)
        \/ handleGetDelete(c)
        \/ handlePushLock(c)
        \/ handlePushRead(c)
        \/ handlePushWrite(c)
        \/ handlePushWake(c)
        \/ handlePushReply(c)
        \/ handleLPopWrite(c)
        \/ handleBLPopLock(c)
        \/ handleBLPopFast(c)
        \/ handleBLPopSignal(c)
        \/ handleBLPopPop(c)
        \/ handleBLPopTimer(c)
        \/ handleBLPopExpire(c)
    \/ Tick

Spec == Init /\ [][Next]_vars

\* ------------------------------------- list store and blocking coordinator

\* the requests of the list commands that reach the list store
ListFrames ==
    {<<n, k>> \o vs : n \in {"LPUSH", "RPUSH"}, k \in Keys, vs \in PushVals}
    \cup {<<"LPOP", k>> : k \in Keys}
    \cup {<<"BLPOP", k, t>> : k \in Keys, t \in {"0", "1", "x"}}

ListInputs == {Request(f) : f \in ListFrames}

\* HandleConnection on clients that send list commands only
HandleListConnection(c) == Serve(c, ListInputs, MaxListCmds)

ListNext ==
    \E c \in Conns :
        \/ HandleListConnection(c)
        \/ handlePushLock(c)
        \/ handlePushRead(c)
        \/ handlePushWrite(c)
        \/ handlePushWake(c)
        \/ handlePushReply(c)
        \/ handleLPopWrite(c)
        \/ handleBLPopLock(c)
        \/ handleBLPopFast(c)
        \/ handleBLPopSignal(c)
        \/ handleBLPopPop(c)
        \/ handleBLPopTimer(c)
        \/ handleBLPopExpire(c)

ListSpec == Init /\ [][ListNext]_vars

\* the steps of connection c's goroutine inside a handler
Steps(c) ==
    \/ handleGetDelete(c)
    \/ handlePushLock(c)
    \/ handlePushRead(c)
    \/ handlePushWrite(c)
    \/ handlePushWake(c)
    \/ handlePushReply(c)
    \/ handleLPopWrite(c)
    \/ handleBLPopLock(c)
    \/ handleBLPopFast(c)
    \/ handleBLPopSignal(c)
    \/ handleBLPopPop(c)
    \/ handleBLPopTimer(c)
    \/ handleBLPopExpire(c)

\* the Go scheduler runs every goroutine that can take a step; a client is
\* free to send nothing more
Fairness == \A c \in Conns : WF_vars(Steps(c))

\* ------------------------------------------------------ wake-up scenario

\* the connection that blocks in the wake-up scenario: the first one accepted
Waiter == CHOOSE c \in Conns : \A d \in Conns : c <= d

WaitInputs == {Request(<<"BLPOP", k, "0">>) : k \in Keys}

PushInputs ==
    {Request(<<n, k>> \o vs) : n \in {"LPUSH", "RPUSH"}, k \in Keys, vs \in PushVals}

\* HandleConnection where only connection Waiter pops (BLPOP key 0) and
\* the other connections push
HandleWakeConnection(c) ==
    Serve(c, IF c = Waiter THEN WaitInputs ELSE PushInputs, MaxWakeCmds)

WakeNext ==
    \E c \in Conns :
        \/ HandleWakeConnection(c)
        \/ handlePushLock(c)
        \/ handlePushRead(c)
        \/ handlePushWrite(c)
        \/ handlePushWake(c)
        \/ handlePushReply(c)
        \/ handleBLPopLock(c)
        \/ handleBLPopFast(c)
        \/ handleBLPopSignal(c)
        \/ handleBLPopPop(c)

WakeSpec == Init /\ [][WakeNext]_vars /\ Fairness

\* ------------------------------------------------------ timeout scenario

BLPopInputs == {Request(<<"BLPOP", k, t>>) : k \in Keys, t \in {"0", "1", "x"}}

\* HandleConnection where nobody pushes: every client sends BLPOP only
HandleTimeoutConnection(c) == Serve(c, BLPopInputs, MaxTimeoutCmds)

TimeoutNext ==
    \E c \in Conns :
        \/ HandleTimeoutConnection(c)
        \/ handleBLPopLock(c)
        \/ handleBLPopTimer(c)
        \/ handleBLPopExpire(c)

TimeoutSpec == Init /\ [][TimeoutNext]_vars /\ Fairness

\* ------------------------------------------------- connection and codec

\* C8: when a read of the stream fails (the peer closed it), the loop of
\* HandleConnection ends: nothing is written for the failure and the
\* connection is closed.
C8_ReadFailureEndsLoop ==
    \A c \in Conns : last[c] = "closed" => pc[c] = "closed" /\ out[c] = <<>>

\* the first lines parseArgs rejects
MalformedInputs == {in \in Inputs : in.lines # <<>> /\ parseArgs(in).err = "invalid format"}

\* C9: a malformed frame is answered with a single Error reply, changes no
\* store state and leaves the connection in its loop, ready for the next frame.
C9_MalformedFrameOneError ==
    [][\A c \in Conns : \A in \in MalformedInputs :
          (pc[c] = "idle" /\ last[c] # "closed" /\ Iteration(c, in))
          => /\ Len(out'[c]) = 1
             /\ pc'[c] = "idle"
             /\ UNCHANGED <<store, rPlush, blockings>>]_vars

\* the Error replies of a rejected command: unknown name, wrong argument
\* count, non-integer PX value, non-integer LRANGE bounds
RejectReplies ==
    {ErrorReply("unknown command '" \o n \o "'") : n \in {f[1] : f \in Frames}}
    \cup {ErrorReply("wrong number of arguments for '" \o n \o "'") :
            n \in {"ECHO", "SET", "GET", "LPUSH", "RPUSH", "LRANGE", "LLEN", "LPOP", "BLPOP"}}
    \cup {ErrorReply("PX value must be integer"), ErrorReply("invalid start or end index")}

\* connection c has just decoded a frame and rejected it with an Error reply
Rejected(c) ==
    /\ pc[c] = "idle"
    /\ pc'[c] = "idle"
    /\ ncmd' = ncmd + 1
    /\ last'[c] = "frame"
    /\ Len(out'[c]) = 1
    /\ out'[c][1] \in RejectReplies

\* C10: a command rejected with an Error reply (unknown name, wrong argument
\* count, non-integer PX value, non-integer LRANGE bounds) leaves the
\* key/value store, every list and every waiter queue as they were.
C10_RejectedCommandNoEffect ==
    [][\A c \in Conns :
          Rejected(c) =>
              \/ UNCHANGED <<store, rPlush, blockings>>
              \/ \A in \in Inputs : ~Iteration(c, in)]_vars

\* a command was rejected while the store, a list and a waiter queue hold data
C10_Witness ==
    \E c \in Conns :
        /\ pc[c] = "idle"
        /\ last[c] = "frame"
        /\ Len(out[c]) = 1
        /\ out[c][1] = ErrorReply("PX value must be integer")
        /\ \/ \E k \in DOMAIN rPlush : Len(rPlush[k]) > 0
           \/ \E k \in DOMAIN blockings : Len(blockings[k]) > 0
           \/ DOMAIN store # {}

\* ------------------------------------------------------------ concurrency

\* connection c stands between two accesses to shared state of one handler:
\* inside a read-then-write sequence or inside a section guarded by mu
InSequence(c) ==
    pc[c] \in {"get_delete", "push_read", "push_write", "push_wake", "push_reply",
               "lpop_write", "blpop_fast", "blpop_pop"}

\* C6: accesses to shared state are serialized: no two connections are at
\* once inside a read-then-write sequence on the lists, the waiter queues or
\* the key/value store.
C6_SharedStateSerialized ==
    \A c, d \in Conns : c # d => ~(InSequence(c) /\ InSequence(d))

\* --------------------------------------------------- blocking pop claims

\* connection b has just pushed the single value v onto the empty list of
\* key k and woken the Waiter, the only request queued on k
WokenBy(b, k, v) ==
    /\ pc[Waiter] = "blpop_wait"
    /\ ch[Waiter] = <<k>>
    /\ pc[b] = "push_reply"
    /\ args[b] \in {<<"LPUSH", k, v>>, <<"RPUSH", k, v>>}
    /\ Lookup(rPlush, k) = <<v>>
    /\ Lookup(blockings, k) = <<>>

\* the integer replies a push in the wake-up scenario can get
PushReplies == {<<IntegerReply(n)>> : n \in 0..(MaxPush * MaxWakeCmds)}

Disturbed(b) ==
    \E d \in Conns \ {Waiter} :
        pc[d] \notin (IF d = b THEN {"push_reply", "idle"} ELSE {"idle"})

Queued == {r.Ch : r \in UNION {Range(blockings[k]) : k \in DOMAIN blockings}}

\* C2: a BLPOP k t with t > 0 that is suspended while nobody pushes to k
\* replies null once its timeout elapses, and after it has returned its
\* Waiter is no longer queued.
C2_TimeoutRepliesNull ==
    \A c \in Conns :
        pc[c] = "blpop_select" ~>
            (pc[c] = "idle" /\ out[c] = <<NullReply>> /\ c \notin Queued)

\* where a connection stands inside handleBLPop
BLPopPcs == {"blpop_lock", "blpop_fast", "blpop_wait", "blpop_select", "blpop_pop", "blpop_expire"}

\* C3: a BLPOP call with a numeric non-zero timeout returns having written
\* exactly one reply: the array [key, value] or null.
C3_BLPopRepliesOnce ==
    [][\A c \in Conns :
          (/\ pc[c] \in BLPopPcs
           /\ pc'[c] = "idle"
           /\ ParseFloat(args[c][3]).ok
           /\ ~ParseFloat(args[c][3]).zero)
          => \/ out'[c] = <<NullReply>>
             \/ \E v \in Vals : out'[c] = PopReply(args[c][2], v)]_vars

\* connection c's call has returned an element
Served(c) ==
    /\ pc[c] = "idle"
    /\ \E k \in Keys : \E v \in Vals : out[c] = PopReply(k, v)

\* connection c's call has queued a request and has not yet got an element
\* nor taken the timeout branch
Unserved(c) == pc[c] \in {"blpop_wait", "blpop_select", "blpop_pop"}

\* C4: waiters on a key are served first-in-first-out: a call whose request
\* was queued later never gets an element while an earlier one still waits.
C4_WaitersServedFIFO ==
    \A a, b \in Conns : (a \in ahead[b] /\ Served(b)) => ~Unserved(a)

\* C5: a push call, however many values it carries, removes exactly the head
\* request of the key's waiter queue (none when the queue is empty), sends
\* exactly one signal, to that request, leaves the other requests in their
\* order, touches the queues in no other step, and never blocks on the send.
C5_PushWakesHeadOnly ==
    [][\A c \in Conns :
          /\ (pc[c] = "push_wake" /\ pc'[c] = "push_reply") =>
                LET key == args[c][2]
                    q == Lookup(blockings, key)
                IN  IF Len(q) = 0
                    THEN UNCHANGED <<blockings, ch>>
                    ELSE /\ blockings' = Assign(blockings, key, Tail(q))
                         /\ ch[q[1].Ch] = <<>>
                         /\ ch' = [ch EXCEPT ![q[1].Ch] = <<key>>]
          /\ (pc[c] \in {"push_lock", "push_read", "push_write", "push_reply"}
              /\ pc'[c] # pc[c]) => UNCHANGED <<blockings, ch>>
          /\ pc[c] = "push_wake" => ENABLED handlePushWake(c)]_vars

\* a push of several values has woken the head request and left another queued
C5_Witness ==
    \E c, w \in Conns :
        /\ pc[c] = "push_reply"
        /\ Len(args[c]) > 3
        /\ ch[w] = <<args[c][2]>>
        /\ Len(Lookup(blockings, args[c][2])) > 0
        /\ w \notin Queued

\* C7: BLPOP key t with a non-numeric t yields an Error reply and changes
\* nothing: the list keeps its contents, no Waiter is queued, and the mutex
\* is released after the command as it was before it.
C7_BadTimeoutNoEffect ==
    [][\A c \in Conns :
          (/\ pc[c] \in {"blpop_lock", "blpop_fast"}
           /\ pc'[c] = "idle"
           /\ ~ParseFloat(args[c][3]).ok)
          => /\ out'[c] = <<ErrorReply("timeout must be a number")>>
             /\ mu' = 0
             /\ UNCHANGED <<rPlush, blockings>>]_vars

\* ------------------------------------------------ key/value store scenario

\* the SET and GET requests: values with and without expiry, the empty value
StoreFrames ==
    {<<"SET", k, v>> : k \in Keys, v \in Vals \cup {""}}
    \cup {<<"SET", k, v, "PX", "1">> : k \in Keys, v \in Vals}
    \cup {<<"GET", k>> : k \in Keys}

StoreInputs == {Request(f) : f \in StoreFrames}

\* HandleConnection on clients that send SET and GET only
HandleStoreConnection(c) == Serve(c, StoreInputs, MaxStoreCmds)

StoreNext ==
    \/ \E c \in Conns :
        \/ HandleStoreConnection(c)
        \/ handleGetDelete(c)
    \/ Tick

StoreSpec == Init /\ [][StoreNext]_vars

\* connection c reads the frame GET k and handleGet runs up to its read of
\* the store
GetStep(c, k) ==
    /\ pc[c] = "idle"
    /\ last[c] # "closed"
    /\ Iteration(c, Request(<<"GET", k>>))

\* the Entry of key k has an expiry and the clock is strictly past it
PastExpiry(k) ==
    /\ k \in DOMAIN store
    /\ store[k].ExpiryTime # ZeroTime
    /\ now > store[k].ExpiryTime.ms

\* the Entry of key k was stored without expiry
NoExpiry(k) ==
    /\ k \in DOMAIN store
    /\ store[k].ExpiryTime = ZeroTime

\* C11: a GET on key k strictly after the expiry of k's Entry replies null
\* and has removed the Entry when it replies; no GET replies with the value
\* of an Entry whose expiry has passed; and a GET never removes an Entry
\* that has no expiry.
C11_LazyExpiry ==
    [][\A c \in Conns : \A k \in Keys :
          /\ (GetStep(c, k) /\ PastExpiry(k)) => pc'[c] = "get_delete"
          /\ (GetStep(c, k) /\ pc'[c] = "idle") => ~PastExpiry(k)
          /\ (handleGetDelete(c) /\ args[c][2] = k) =>
                /\ out'[c] = <<NullReply>>
                /\ k \notin DOMAIN store'
                /\ ~NoExpiry(k)]_vars

\* the RESP bulk string of v: "$<byte-length>\r\n<text>\r\n"
BulkStringOf(v) == "$" \o ToString(Len(v)) \o "\r\n" \o v \o "\r\n"

\* connection c reads a SET frame and handleSet stores its Entry
SetStep(c) ==
    /\ pc[c] = "idle"
    /\ ncmd' = ncmd + 1
    /\ out'[c] = <<SimpleString("OK")>>

\* C12: after SET k v without PX, a GET k with no SET on k in between
\* replies the bulk string v.  In steps: a GET that finds under k the Entry
\* of a SET without PX replies its value as a bulk string, and that Entry
\* stays under k, unchanged, until the next SET.
C12_SetGetRoundTrip ==
    [][\A k \in Keys :
          /\ \A c \in Conns :
                (GetStep(c, k) /\ NoExpiry(k)) =>
                    /\ pc'[c] = "idle"
                    /\ out'[c] = <<BulkStringOf(store[k].Value)>>
          /\ NoExpiry(k) =>
                \/ k \in DOMAIN store' /\ store'[k] = store[k]
                \/ \E c \in Conns : SetStep(c)]_vars

\* ------------------------------------------------------------ list claims

\* the values of s, last to first
RECURSIVE Reversed(_)
Reversed(s) == IF s = <<>> THEN <<>> ELSE Append(Reversed(Tail(s)), s[1])

\* the list a push of the values vs must leave where it found the list l
PushResult(name, l, vs) == IF name = "LPUSH" THEN Reversed(vs) \o l ELSE l \o vs

\* C13: LPUSH k v1..vn on a list L leaves vn,...,v1 followed by L, RPUSH
\* k v1..vn leaves L followed by v1,...,vn, and a push to an absent key
\* creates the list: the list under k after the call's last write is that
\* result, L being the list the call found when it began.
C13_PushOrder ==
    [][\A c \in Conns :
          (pc[c] = "push_write" /\ pc'[c] = "push_wake") =>
              /\ args[c][2] \in DOMAIN rPlush'
              /\ rPlush'[args[c][2]] =
                    PushResult(ToUpper(args[c][1]), began[c], SliceFrom(args[c], 2))]_vars

\* C14: the integer a push of n values replies is the length of the list
\* when the push began plus n, also when the push has woken a waiter.
C14_PushRepliesLength ==
    [][\A c \in Conns :
          (pc[c] = "push_reply" /\ pc'[c] = "idle") =>
              out'[c] = <<IntegerReply(Len(began[c]) + Len(args[c]) - 2)>>]_vars

\* ---------------------------------------------------------- range scenario

\* the index arguments of LRANGE: inside, at and past both ends of the lists
Indexes == {"0", "1", "2", "5", "-1", "-2", "-5"}

\* pushes that build lists of up to three elements, the empty string among
\* them, and the range reads
RangeFrames ==
    {<<"RPUSH", k>> \o vs : k \in Keys, vs \in PushVals \cup {<<"">>, <<"a", "b", "a">>}}
    \cup {<<"LRANGE", k, s, e>> : k \in Keys, s \in Indexes, e \in Indexes}

RangeInputs == {Request(f) : f \in RangeFrames}

HandleRangeConnection(c) == Serve(c, RangeInputs, MaxRangeCmds)

RangeNext ==
    \E c \in Conns :
        \/ HandleRangeConnection(c)
        \/ handlePushLock(c)
        \/ handlePushRead(c)
        \/ handlePushWrite(c)
        \/ handlePushWake(c)
        \/ handlePushReply(c)

RangeSpec == Init /\ [][RangeNext]_vars

\* the LRANGE requests, by key and index arguments
RangeRequests ==
    [k \in Keys, s \in Indexes, e \in Indexes |-> Request(<<"LRANGE", k, s, e>>)]

\* connection c reads the frame LRANGE k s e and handleLRange runs
LRangeStep(c, k, s, e) ==
    /\ pc[c] = "idle"
    /\ last[c] # "closed"
    /\ ncmd' = ncmd + 1
    /\ Iteration(c, RangeRequests[k, s, e])

\* index i on a list of length n: a negative index counts from the end
FromEnd(n, i) == IF i < 0 THEN n + i ELSE i

\* x clamped into [0, n-1]
Clamped(n, x) == IF x < 0 THEN 0 ELSE IF x > n - 1 THEN n - 1 ELSE x

\* the reply LRANGE must give on list l for the integers start and end
RangeReply(l, start, end) ==
    LET n == Len(l)
        s == Clamped(n, FromEnd(n, start))
        e == Clamped(n, FromEnd(n, end))
    IN  IF n = 0 \/ FromEnd(n, start) >= n \/ s > e
        THEN <<ArrayHeader(0)>>
        ELSE <<ArrayHeader(e - s + 1)>> \o [i \in 1..(e - s + 1) |-> BulkString(l[s + i])]

\* C15: LRANGE k start end on a list of length n reads a negative index i
\* as n+i, clamps both bounds into [0, n-1] and replies the elements at the
\* clamped positions start..end in list order; the reply is the empty array
\* when the clamped start exceeds the clamped end or start is at or past n;
\* the list is left as it was.
C15_LRangeClamps ==
    [][\A c \in Conns : \A k \in Keys : \A s, e \in Indexes :
          LRangeStep(c, k, s, e) =>
              /\ pc'[c] = "idle"
              /\ out'[c] = RangeReply(Lookup(rPlush, k), Atoi(s).n, Atoi(e).n)
              /\ rPlush' = rPlush]_vars

\* an LRANGE has replied the last two elements of a list of three
C15_Witness ==
    \E c \in Conns : \E k \in Keys :
        /\ pc[c] = "idle"
        /\ Lookup(rPlush, k) = <<"a", "b", "a">>
        /\ out[c] = <<ArrayHeader(2), BulkString("b"), BulkString("a")>>

\* ------------------------------------------------------------ pop scenario

\* the count arguments of LPOP: inside and past the lists, non-positive,
\* not a number
Counts == {"1", "2", "5", "0", "-1", "x"}

\* pushes that build lists of up to three elements, and the pops
PopFrames ==
    {<<"RPUSH", k>> \o vs : k \in Keys, vs \in PushVals \cup {<<"a", "b", "a">>}}
    \cup {<<"LPOP", k>> : k \in Keys}
    \cup {<<"LPOP", k, n>> : k \in Keys, n \in Counts}

PopInputs == {Request(f) : f \in PopFrames}

HandlePopConnection(c) == Serve(c, PopInputs, MaxPopCmds)

PopNext ==
    \E c \in Conns :
        \/ HandlePopConnection(c)
        \/ handlePushLock(c)
        \/ handlePushRead(c)
        \/ handlePushWrite(c)
        \/ handlePushWake(c)
        \/ handlePushReply(c)
        \/ handleLPopWrite(c)

PopSpec == Init /\ [][PopNext]_vars

\* the number of elements LPOP with count argument s removes from list l
Removed(l, s) ==
    LET given == IF Atoi(s).ok /\ Atoi(s).n > 0 THEN Atoi(s).n ELSE 1
    IN  IF given < Len(l) THEN given ELSE Len(l)

\* the reply and the list LPOP must leave on list l: [out, rest]
PopResult(l, a) ==
    IF l = <<>> THEN [out |-> <<NullReply>>, rest |-> l]
    ELSE IF Len(a) = 3
    THEN LET m == Removed(l, a[3])
         IN  [out |-> <<ArrayHeader(m)>> \o [i \in 1..m |-> BulkString(l[i])],
              rest |-> SubSeq(l, m + 1, Len(l))]
    ELSE [out |-> <<BulkString(l[1])>>, rest |-> Tail(l)]

\* connection c reads an LPOP frame and handleLPop finds the list empty
LPopEmptyStep(c) ==
    /\ pc[c] = "idle"
    /\ ncmd' = ncmd + 1
    /\ pc'[c] = "idle"
    /\ out'[c] = <<NullReply>>

\* C16: LPOP k count on a non-empty list L returns the first m elements of
\* L in order and leaves the remaining ones, m = min(c, |L|), c the count
\* when it parses to a positive integer and 1 otherwise; LPOP k returns the
\* head as a bulk string and removes only it; LPOP on an empty or absent
\* list returns null and changes nothing.  L is the list under k when the
\* call replies and stores the list it leaves.
C16_LPopCount ==
    [][\A c \in Conns :
          /\ (pc[c] = "lpop_write" /\ pc'[c] = "idle") =>
                LET key == args[c][2]
                    r == PopResult(Lookup(rPlush, key), args[c])
                IN  /\ out'[c] = r.out
                    /\ Lookup(rPlush', key) = r.rest
          /\ LPopEmptyStep(c) => rPlush' = rPlush]_vars

\* ------------------------------------------------- mutex, elements, waiters

\* connection c is suspended in the wait of handleBLPop
Suspended(c) == pc[c] \in {"blpop_wait", "blpop_select"}

\* C17: the mutex is held only inside a command's critical section: no
\* connection holds it while it is suspended in the BLPOP wait, and none
\* holds it once its handler has returned to the connection loop, so that
\* a LPUSH, RPUSH or BLPOP of any connection can always go on to acquire it.
C17_MutexOnlyInCriticalSection ==
    \A c \in Conns : (pc[c] = "idle" \/ Suspended(c)) => mu # c

\* the number of occurrences of x in the sequence q
Occurrences(q, x) == Cardinality({i \in DOMAIN q : q[i] = x})

\* the step is connection c's write of one pushed value under key k
PushWriteStep(c, k) ==
    /\ pc[c] = "push_write"
    /\ pc'[c] \in {"push_read", "push_wake"}
    /\ args[c][2] = k

\* the step is the write and the reply of a pop (LPOP or BLPOP) of
\* connection c on key k
PopReplyStep(c, k) ==
    /\ pc[c] \in {"lpop_write", "blpop_fast", "blpop_pop"}
    /\ pc'[c] = "idle"
    /\ args[c][2] = k

\* C18: element conservation: every step of every interleaving of LPUSH,
\* RPUSH, LPOP and BLPOP keeps the account of each value under a key: a
\* push write adds one instance of the pushed value to the list, a pop
\* moves the instances it replies out of the list, and no other step
\* changes the list; so every pushed instance is in the list once or was
\* returned by one pop, none is returned twice and none disappears.
C18_ElementConservation ==
    [][\A k \in Keys : \A v \in Vals :
          LET before == Occurrences(Lookup(rPlush, k), v)
              after == Occurrences(Lookup(rPlush', k), v)
          IN  /\ \A c \in Conns :
                    PushWriteStep(c, k) =>
                        after = before + (IF args[c][idx[c]] = v THEN 1 ELSE 0)
              /\ \A c \in Conns :
                    PopReplyStep(c, k) =>
                        before = after + Occurrences(out'[c], BulkString(v))
              /\ (\A c \in Conns : ~PushWriteStep(c, k) /\ ~PopReplyStep(c, k))
                    => after = before]_vars

\* no command is under way other than BLPOP calls suspended in their wait,
\* and no suspended call has a signal waiting in its channel
Quiescent ==
    \A c \in Conns : pc[c] = "idle" \/ (Suspended(c) /\ ch[c] = <<>>)

\* key k has a non-empty list and a queued request of a suspended call
Stranded(k) ==
    /\ Len(Lookup(rPlush, k)) > 0
    /\ \E r \in Range(Lookup(blockings, k)) : Suspended(r.Ch)

\* C19: no stranded waiter: in a quiescent state no key has both a
\* non-empty list and a Waiter still queued and suspended on it.
C19_NoStrandedWaiter ==
    Quiescent => \A k \in Keys : ~Stranded(k)

\* the request of connection c's call is still in the queue of its key
StillQueued(c) ==
    \E r \in Range(Lookup(blockings, args[c][2])) : r.Ch = c

\* C20: a BLPOP call replies null on its timeout only when no push has
\* dequeued its Waiter and delivered its signal: at the null reply the
\* request is still queued and the call's channel holds no signal.
C20_NoTimeoutAfterWakeup ==
    [][\A c \in Conns :
          (pc[c] = "blpop_expire" /\ pc'[c] = "idle") =>
              /\ StillQueued(c)
              /\ ch[c] = <<>>]_vars

====
